---- MODULE Spec2Model ----
(***************************************************************************)
(* Word-postings extraction of milli:                                      *)
(*   src/milli/src/update/new/extract/searchable/extract_word_docids.rs    *)
(*                                                                         *)
(* A posting stream (a cached sorter in front of an external-merge sorter  *)
(* whose merge function is the DelAdd union) is the set of its             *)
(* <<key, side, docid>> entries: a key is a sequence of bytes, side is     *)
(* "del" or "add".  A document version is the sequence of tokens           *)
(* <<field_name, position, word>> the tokenizer calls the callback with.   *)
(***************************************************************************)
EXTENDS Integers, Sequences, FiniteSets, TLC

VARIABLES
    sorters,     \* SpecSorters: one WordDocidsCachedSorters
    last,        \* SpecSorters: the last call made on it, with the tally it found
    ncalls,      \* SpecSorters: number of calls made
    routed,      \* SpecSorters: the tokens passed so far, as <<side, token, docid>>
    batch,       \* Spec: the document changes of the pass, batch[d] is the change of docid d
    owner,       \* Spec: owner[d] is the worker that processed batch[d], 0 while pending
    datastore,   \* Spec: the thread-local accumulator of each worker, None before its first change
    builder,     \* Spec: the five merger builders (WordDocidsMergerBuilders)
    added,       \* Spec: the workers whose accumulator add_sorters has consumed
    mergers,     \* Spec: the WordDocidsMergers run_extraction returns, None before
    tokens,      \* SpecKeys: two tokens, as [w1, f1, p1, w2, f2, p2]
    keys,        \* SpecKeys: the keys written for the two tokens, None before
    cbo,         \* SpecCache: one CboCachedSorter, as [capacity, cache, sorter]
    inserted,    \* SpecCache: the <<key, side, docid>> passed to it so far
    finished,    \* SpecCache: the sorter into_sorter yielded, None before
    failure,     \* SpecFallible: the errors of the pass, as [failed, late, at, result]
    running,     \* SpecSteps: running[w] is the change worker w is in and the calls made for it
    weights_map, \* SpecWeights: the map of one FieldidsWeightsMap
    returned,    \* SpecWeights: the last call on it, with the map it found and what it returned
    template,    \* SpecPrompt: the template text given to Prompt::new, as its elements
    prompt,      \* SpecPrompt: what Prompt::new returned, None before
    journal      \* SpecSteps: journal[a] is the sequence of calls made on accumulator a

sorterVars == <<sorters, last, ncalls, routed>>
driverVars == <<batch, owner, datastore, builder, added, mergers>>
keyVars == <<tokens, keys>>
cacheVars == <<cbo, inserted, finished>>
stepVars == <<running, journal>>
weightVars == <<weights_map, returned>>
promptVars == <<template, prompt>>
restVars == <<keyVars, cacheVars, failure, stepVars, weightVars, promptVars>>

vars == <<sorters, last, ncalls, routed, batch, owner, datastore, builder, added, mergers,
          restVars>>

(***************************************************************************)
(* Bounds of the model.                                                    *)
(***************************************************************************)
MaxCalls == 3
NumWorkers == 2
MaxWordLen == 2
MaxCapacity == 2
MaxInserts == 3
MaxTemplateLen == 2

(***************************************************************************)
(* Program constants.                                                      *)
(***************************************************************************)
MAX_COUNTED_WORDS == 30

U8 == 256
U16 == 65536

(***************************************************************************)
(* Fields.  A field name is its path, a sequence of segments ("name.first" *)
(* is <<"name", "first">>).  The fields ids map gives each name its        *)
(* FieldId (u16).                                                          *)
(***************************************************************************)
Title == <<"title">>
Name == <<"name">>
NameFirst == <<"name", "first">>

FieldNames == {Title, Name, NameFirst}

fields_ids_map(fname) ==
    CASE fname = Title -> 0
      [] fname = Name -> 1
      [] fname = NameFirst -> 258

exact_attributes == {Name}

\* perm_json_p::contained_in: selector is key, or key followed by '.' and more
contained_in(selector, key) ==
    /\ Len(key) <= Len(selector)
    /\ SubSeq(selector, 1, Len(key)) = key

is_exact_attribute_eq(fname) ==
    fname \in exact_attributes

is_exact_attribute(fname) ==
    \E attr \in exact_attributes : contained_in(fname, attr)

(***************************************************************************)
(* Bytes and keys.                                                         *)
(***************************************************************************)
to_be_bytes(n) == <<(n \div U8) % U8, n % U8>>

as_u8(n) == n % U8

RECURSIVE CeilPow2(_, _)
CeilPow2(n, p) == IF p >= n THEN p ELSE CeilPow2(n, 2 * p)

\* crate::bucketed_position
bucketed_position(relative) ==
    IF relative < 16 THEN relative
    ELSE IF relative < 24 THEN 24
    ELSE IF CeilPow2(relative, 1) >= U16 THEN U16 - 1
    ELSE CeilPow2(relative, 1)

WordA == <<97>>
WordB == <<98>>
WordAB == <<97, 98>>

(***************************************************************************)
(* CboCachedSorter over a grenad sorter merging with                       *)
(* MergeDeladdCboRoaringBitmaps: what the sorter holds after the cache is  *)
(* flushed and equal keys are merged.                                      *)
(***************************************************************************)
EmptySorter == {}

cbo_insert_del_u32(sorter, key, n) == sorter \cup {<<key, "del", n>>}

cbo_insert_add_u32(sorter, key, n) == sorter \cup {<<key, "add", n>>}

(***************************************************************************)
(* WordDocidsCachedSorters.                                                *)
(***************************************************************************)
None == <<>>
Some(x) == <<x>>
unwrap(opt) == opt[1]

EmptyTally == [f \in {} |-> <<0, 0>>]

WordDocidsCachedSorters_new ==
    [ word_fid_docids |-> EmptySorter,
      word_docids |-> EmptySorter,
      exact_word_docids |-> EmptySorter,
      word_position_docids |-> EmptySorter,
      fid_word_count_docids |-> EmptySorter,
      fid_word_count |-> EmptyTally,
      current_docid |-> None,
      \* not a field of the struct: set when current_docid.unwrap() panics
      panicked |-> FALSE ]

\* lines 124-128 and 166-170: the stream a word is written to
word_stream(exact) == IF exact THEN "exact_word_docids" ELSE "word_docids"

\* lines 130-133: the word_fid_docids key
word_fid_key_no_separator(word, field_id) == word \o to_be_bytes(field_id)

word_fid_key_separator_last(word, field_id) == word \o to_be_bytes(field_id) \o <<0>>

word_fid_key(word, field_id) == word \o <<0>> \o to_be_bytes(field_id)

\* lines 136-140: the word_position_docids key
word_position_key_raw(word, position) == word \o <<0>> \o to_be_bytes(position)

word_position_key(word, position) ==
    word \o <<0>> \o to_be_bytes(bucketed_position(position))

\* lines 202-204 and 209-211: the fid_word_count_docids key
fid_word_count_key(fid, count) == to_be_bytes(fid) \o <<as_u8(count)>>

\* lines 201 and 208
is_counted_always(count) == TRUE

is_counted(count) == count <= MAX_COUNTED_WORDS

\* lines 200-215, for one drained entry: the writes to fid_word_count_docids
flush_entry_unconditional(fid, current_count, new_count, docid) ==
    (IF is_counted(current_count)
        THEN {<<fid_word_count_key(fid, current_count), "del", docid>>}
        ELSE {})
    \cup
    (IF is_counted(new_count)
        THEN {<<fid_word_count_key(fid, new_count), "add", docid>>}
        ELSE {})

\* a flush that takes a count of 0 for a version without the field
flush_entry_nonzero(fid, current_count, new_count, docid) ==
    IF current_count # new_count
    THEN (IF current_count > 0 /\ is_counted(current_count)
             THEN {<<fid_word_count_key(fid, current_count), "del", docid>>}
             ELSE {})
         \cup
         (IF new_count > 0 /\ is_counted(new_count)
             THEN {<<fid_word_count_key(fid, new_count), "add", docid>>}
             ELSE {})
    ELSE {}

flush_entry(fid, current_count, new_count, docid) ==
    IF current_count # new_count
    THEN (IF is_counted(current_count)
             THEN {<<fid_word_count_key(fid, current_count), "del", docid>>}
             ELSE {})
         \cup
         (IF is_counted(new_count)
             THEN {<<fid_word_count_key(fid, new_count), "add", docid>>}
             ELSE {})
    ELSE {}

\* the tally after line 199's drain()
drained_kept(tally) == tally

drained(tally) == EmptyTally

\* a flush that also forgets the document it wrote for
flush_fid_word_count_reset(self) ==
    [self EXCEPT !.fid_word_count = EmptyTally, !.current_docid = None]

\* lines 198-219
flush_fid_word_count(self) ==
    LET tally == self.fid_word_count
        writes(docid) ==
            UNION { flush_entry(fid, tally[fid][1], tally[fid][2], docid) :
                    fid \in DOMAIN tally }
        needs_docid ==
            \E fid \in DOMAIN tally :
                /\ tally[fid][1] # tally[fid][2]
                /\ is_counted(tally[fid][1]) \/ is_counted(tally[fid][2])
    IN  IF needs_docid /\ self.current_docid = None
        THEN [self EXCEPT !.fid_word_count = drained(tally), !.panicked = TRUE]
        ELSE IF self.current_docid = None
        THEN [self EXCEPT !.fid_word_count = drained(tally)]
        ELSE [self EXCEPT
                !.fid_word_count_docids = @ \cup writes(unwrap(self.current_docid)),
                !.fid_word_count = drained(tally)]

\* a test that never sees a change of document
docid_changed_never(current_docid, docid) == FALSE

\* lines 143 and 185
docid_changed(current_docid, docid) ==
    IF current_docid = None THEN FALSE ELSE docid # unwrap(current_docid)

\* lines 147-150
tally_add(tally, field_id) ==
    IF field_id \in DOMAIN tally
    THEN [tally EXCEPT ![field_id] = <<@[1], @[2] + 1>>]
    ELSE [f \in DOMAIN tally \cup {field_id} |->
            IF f = field_id THEN <<0, 1>> ELSE tally[f]]

\* lines 189-192
tally_del(tally, field_id) ==
    IF field_id \in DOMAIN tally
    THEN [tally EXCEPT ![field_id] = <<@[1] + 1, @[2]>>]
    ELSE [f \in DOMAIN tally \cup {field_id} |->
            IF f = field_id THEN <<1, 0>> ELSE tally[f]]

\* an insert that counts the token and leaves current_docid as it was
insert_add_u32_docid_unset(self, field_id, position, word, exact, docid) ==
    [self EXCEPT
        ![word_stream(exact)] = cbo_insert_add_u32(@, word, docid),
        !.word_fid_docids = cbo_insert_add_u32(@, word_fid_key(word, field_id), docid),
        !.word_position_docids =
            cbo_insert_add_u32(@, word_position_key(word, position), docid),
        !.fid_word_count = tally_add(@, field_id)]

\* lines 114-154
insert_add_u32(self, field_id, position, word, exact, docid) ==
    LET s1 == [self EXCEPT ![word_stream(exact)] = cbo_insert_add_u32(@, word, docid)]
        s2 == [s1 EXCEPT !.word_fid_docids =
                  cbo_insert_add_u32(@, word_fid_key(word, field_id), docid)]
        s3 == [s2 EXCEPT !.word_position_docids =
                  cbo_insert_add_u32(@, word_position_key(word, position), docid)]
        s4 == IF docid_changed(s3.current_docid, docid)
              THEN flush_fid_word_count(s3) ELSE s3
    IN  [s4 EXCEPT !.fid_word_count = tally_add(@, field_id),
                   !.current_docid = Some(docid)]

insert_del_u32(self, field_id, position, word, exact, docid) ==
    LET s1 == [self EXCEPT ![word_stream(exact)] = cbo_insert_del_u32(@, word, docid)]
        s2 == [s1 EXCEPT !.word_fid_docids =
                  cbo_insert_del_u32(@, word_fid_key(word, field_id), docid)]
        s3 == [s2 EXCEPT !.word_position_docids =
                  cbo_insert_del_u32(@, word_position_key(word, position), docid)]
        s4 == IF docid_changed(s3.current_docid, docid)
              THEN flush_fid_word_count(s3) ELSE s3
    IN  [s4 EXCEPT !.fid_word_count = tally_del(@, field_id),
                   !.current_docid = Some(docid)]

(***************************************************************************)
(* Documents: the tokens the document tokenizer produces for a version,    *)
(* in the order it calls the callback.                                     *)
(***************************************************************************)
DocEmpty == <<>>
DocTitle == << <<Title, 0, WordA>>, <<Title, 17, WordAB>> >>
DocS4 == << <<NameFirst, 0, WordA>>, <<Title, 0, WordA>>, <<Title, 1, WordB>> >>
DocLong == [i \in 1..31 |-> <<Title, i - 1, WordA>>]
           \o [i \in 1..30 |-> <<Name, i - 1, WordB>>]

Docs == {DocEmpty, DocTitle, DocS4, DocLong}

DocTitleA == << <<Title, 0, WordA>> >>
DocTitleName == << <<Title, 0, WordA>>, <<Name, 16, WordA>> >>

SorterDocs == {DocTitleA, DocTitleName, DocS4, DocLong}

DocIds == {1, 2}

(***************************************************************************)
(* DocumentTokenizer::tokenize_document with the token_fn of               *)
(* extract_document_change: one insert per token.                          *)
(***************************************************************************)
\* the token_fn of lines 434-445 and 453-464
token_fn_del(self, t, docid) ==
    insert_del_u32(self, fields_ids_map(t[1]), t[2], t[3],
                   is_exact_attribute(t[1]), docid)

\* the token_fn of lines 471-482 and 490-501
token_fn_add(self, t, docid) ==
    insert_add_u32(self, fields_ids_map(t[1]), t[2], t[3],
                   is_exact_attribute(t[1]), docid)

\* tokens lo..hi of the document, in order (split in halves to bound the
\* depth of the evaluation); a panic of the callback ends the walk
RECURSIVE tokenize_del_range(_, _, _, _, _)
tokenize_del_range(self, document, lo, hi, docid) ==
    IF lo > hi THEN self
    ELSE IF lo = hi THEN token_fn_del(self, document[lo], docid)
    ELSE LET mid == (lo + hi) \div 2
             left == tokenize_del_range(self, document, lo, mid, docid)
         IN  IF left.panicked THEN left
             ELSE tokenize_del_range(left, document, mid + 1, hi, docid)

RECURSIVE tokenize_add_range(_, _, _, _, _)
tokenize_add_range(self, document, lo, hi, docid) ==
    IF lo > hi THEN self
    ELSE IF lo = hi THEN token_fn_add(self, document[lo], docid)
    ELSE LET mid == (lo + hi) \div 2
             left == tokenize_add_range(self, document, lo, mid, docid)
         IN  IF left.panicked THEN left
             ELSE tokenize_add_range(left, document, mid + 1, hi, docid)

tokenize_document_del(self, document, docid) ==
    tokenize_del_range(self, document, 1, Len(document), docid)

tokenize_document_add(self, document, docid) ==
    tokenize_add_range(self, document, 1, Len(document), docid)

(***************************************************************************)
(* Document changes.  old is the version inner.current() reads from the    *)
(* index, new the version inner.new() builds; a Deletion has no new        *)
(* version and an Insertion no old one.                                    *)
(***************************************************************************)
Deletion(docid, old) ==
    [kind |-> "Deletion", docid |-> docid, old |-> old, new |-> <<>>]

Update(docid, old, new) ==
    [kind |-> "Update", docid |-> docid, old |-> old, new |-> new]

Insertion(docid, new) ==
    [kind |-> "Insertion", docid |-> docid, old |-> <<>>, new |-> new]

ChangesOf(docid) ==
    { Deletion(docid, old) : old \in Docs }
    \cup { Insertion(docid, new) : new \in Docs }
    \cup { Update(docid, old, new) : old \in Docs, new \in Docs }

\* line 510
end_of_change_skipped(self) == self

end_of_change(self) == flush_fid_word_count(self)

\* lines 452-488 without the second pass
update_passes_del_only(self, change) ==
    tokenize_document_del(self, change.old, change.docid)

\* lines 452-488 without the first pass
update_passes_add_only(self, change) ==
    tokenize_document_add(self, change.new, change.docid)

\* lines 452-488
update_passes(self, change) ==
    LET pass1 == tokenize_document_del(self, change.old, change.docid)
    IN  IF pass1.panicked THEN pass1
        ELSE tokenize_document_add(pass1, change.new, change.docid)

\* lines 416-509, without line 510
extract_document_change_unflushed(self, change) ==
    CASE change.kind = "Deletion" ->
            tokenize_document_del(self, change.old, change.docid)
      [] change.kind = "Update" ->
            update_passes(self, change)
      [] change.kind = "Insertion" ->
            tokenize_document_add(self, change.new, change.docid)

extract_document_change(self, change) ==
    LET tokenized ==
            CASE change.kind = "Deletion" ->
                    tokenize_document_del(self, change.old, change.docid)
              [] change.kind = "Update" ->
                    update_passes(self, change)
              [] change.kind = "Insertion" ->
                    tokenize_document_add(self, change.new, change.docid)
    IN  IF tokenized.panicked THEN tokenized ELSE end_of_change(tokenized)

(***************************************************************************)
(* WordDocidsMergerBuilders and WordDocidsMergers.  A reader cursor is     *)
(* the content of one finished sorter, with the worker and stream it was   *)
(* read from; a merger yields the keys of its cursors in bytewise order,   *)
(* each once, with the del and add docids merged.                          *)
(***************************************************************************)
Streams ==
    { "word_fid_docids", "word_docids", "exact_word_docids",
      "word_position_docids", "fid_word_count_docids" }

WordDocidsMergerBuilders_new == [stream \in Streams |-> {}]

\* lines 268, 272, 276, 280, 284
into_reader_cursors(other, worker, stream) ==
    { [worker |-> worker, stream |-> stream, entries |-> other[stream]] }

\* lines 287-291 with the readers of two streams exchanged
extend_target_crossed(stream) ==
    CASE stream = "word_docids" -> "exact_word_docids"
      [] stream = "exact_word_docids" -> "word_docids"
      [] OTHER -> stream

\* lines 287-291: the builder each stream's readers are given to
extend_target(stream) == stream

add_sorters(self, other, worker) ==
    [ target \in Streams |->
        self[target] \cup
        UNION { into_reader_cursors(other, worker, stream) :
                stream \in { st \in Streams : extend_target(st) = target } } ]

\* bytewise lexicographic order of keys
RECURSIVE KeyLess(_, _)
KeyLess(a, b) ==
    IF b = <<>> THEN FALSE
    ELSE IF a = <<>> THEN TRUE
    ELSE IF a[1] # b[1] THEN a[1] < b[1]
    ELSE KeyLess(Tail(a), Tail(b))

RECURSIVE SetToSeq(_)
SetToSeq(S) ==
    IF S = {} THEN <<>>
    ELSE LET x == CHOOSE y \in S : TRUE
         IN  <<x>> \o SetToSeq(S \ {x})

\* grenad::Merger with MergeDeladdCboRoaringBitmaps
merger_build(cursors) ==
    LET entries == UNION { c.entries : c \in cursors }
        sorted == SortSeq(SetToSeq({ e[1] : e \in entries }), KeyLess)
    IN  [ i \in 1..Len(sorted) |->
            [ key |-> sorted[i],
              del |-> { e[3] : e \in { x \in entries : x[1] = sorted[i] /\ x[2] = "del" } },
              add |-> { e[3] : e \in { x \in entries : x[1] = sorted[i] /\ x[2] = "add" } } ] ]

\* lines 296-304
build(self) == [stream \in Streams |-> merger_build(self[stream])]

(***************************************************************************)
(* SpecSorters: any sequence of calls on one accumulator.                  *)
(***************************************************************************)
KeysIdle ==
    /\ tokens = <<>>
    /\ keys = <<>>

CacheIdle ==
    /\ cbo = <<>>
    /\ inserted = {}
    /\ finished = <<>>

\* no error so far: no worker has failed, none has finished a change after a
\* failure, and run_extraction has not returned
NoFailure ==
    [ failed |-> {}, late |-> {}, at |-> <<>>, result |-> <<>> ]

StepsIdle ==
    /\ running = <<>>
    /\ journal = <<>>

WeightsIdle ==
    /\ weights_map = <<>>
    /\ returned = <<>>

PromptIdle ==
    /\ template = <<>>
    /\ prompt = <<>>

RestIdle ==
    /\ KeysIdle
    /\ CacheIdle
    /\ failure = NoFailure
    /\ StepsIdle
    /\ WeightsIdle
    /\ PromptIdle
    /\ PromptIdle

Call(op, docid) ==
    [ op |-> op, docid |-> docid,
      fid_word_count |-> sorters.fid_word_count,
      current_docid |-> sorters.current_docid,
      fid_word_count_docids |-> sorters.fid_word_count_docids ]

NoCall ==
    [ op |-> "new", docid |-> 0,
      fid_word_count |-> EmptyTally,
      current_docid |-> None,
      fid_word_count_docids |-> EmptySorter ]

TokensOf(side, document, docid) ==
    { <<side, document[i], docid>> : i \in 1..Len(document) }

DriverIdle ==
    /\ batch = <<>>
    /\ owner = <<>>
    /\ datastore = <<>>
    /\ builder = WordDocidsMergerBuilders_new
    /\ added = {}
    /\ mergers = None

InitSorters ==
    /\ sorters = WordDocidsCachedSorters_new
    /\ last = NoCall
    /\ ncalls = 0
    /\ routed = {}
    /\ DriverIdle
    /\ RestIdle

TokenizeDel(document, docid) ==
    /\ ncalls < MaxCalls
    /\ sorters' = tokenize_document_del(sorters, document, docid)
    /\ last' = Call("del", docid)
    /\ ncalls' = ncalls + 1
    /\ routed' = routed \cup TokensOf("del", document, docid)
    /\ UNCHANGED <<batch, owner, datastore, builder, added, mergers, restVars>>

TokenizeAdd(document, docid) ==
    /\ ncalls < MaxCalls
    /\ sorters' = tokenize_document_add(sorters, document, docid)
    /\ last' = Call("add", docid)
    /\ ncalls' = ncalls + 1
    /\ routed' = routed \cup TokensOf("add", document, docid)
    /\ UNCHANGED <<batch, owner, datastore, builder, added, mergers, restVars>>

FlushFidWordCount ==
    /\ ncalls < MaxCalls
    /\ sorters' = flush_fid_word_count(sorters)
    /\ last' = Call("flush", 0)
    /\ ncalls' = ncalls + 1
    /\ UNCHANGED <<routed, batch, owner, datastore, builder, added, mergers, restVars>>

NextSorters ==
    \/ \E document \in SorterDocs, docid \in DocIds : TokenizeDel(document, docid)
    \/ \E document \in SorterDocs, docid \in DocIds : TokenizeAdd(document, docid)
    \/ FlushFidWordCount

SpecSorters == InitSorters /\ [][NextSorters]_vars

(***************************************************************************)
(* Spec: run_extraction.  Every pending change is taken by some worker     *)
(* (for_each_document_change), which extracts it into its own accumulator, *)
(* created on the worker's first change; when no change is pending the     *)
(* accumulators are added to the merger builders, and the mergers built.   *)
(***************************************************************************)
Workers == 1..NumWorkers

Panicked(w) ==
    IF datastore[w] = None THEN FALSE ELSE unwrap(datastore[w]).panicked

SortersIdle ==
    /\ sorters = WordDocidsCachedSorters_new
    /\ last = NoCall
    /\ ncalls = 0
    /\ routed = {}

\* an error aborts the pass through line 400 or line 409, whose ? makes
\* run_extraction return the error
pass_aborted(f) == f.failed # {} \/ f.result # None

Init ==
    /\ batch \in [DocIds -> UNION { ChangesOf(d) : d \in DocIds }]
    /\ \A d \in DocIds : batch[d].docid = d
    /\ owner = [d \in DocIds |-> 0]
    /\ datastore = [w \in Workers |-> None]
    /\ builder = WordDocidsMergerBuilders_new
    /\ added = {}
    /\ mergers = None
    /\ SortersIdle
    /\ RestIdle

\* lines 316-326 and 423
init_data(data) ==
    IF data = None THEN WordDocidsCachedSorters_new ELSE unwrap(data)

\* lines 333-336, one change
Process(w, d) ==
    /\ mergers = None
    /\ ~pass_aborted(failure)
    /\ owner[d] = 0
    /\ \A x \in Workers : ~Panicked(x)
    /\ datastore' = [datastore EXCEPT
                        ![w] = Some(extract_document_change(init_data(@), batch[d]))]
    /\ owner' = [owner EXCEPT ![d] = w]
    /\ UNCHANGED <<batch, builder, added, mergers, sorters, last, ncalls, routed, restVars>>

\* lines 408-410, one accumulator
AddSorters(w) ==
    /\ mergers = None
    /\ ~pass_aborted(failure)
    /\ \A d \in DocIds : owner[d] # 0
    /\ \A x \in Workers : ~Panicked(x)
    /\ datastore[w] # None
    /\ w \notin added
    /\ builder' = add_sorters(builder, unwrap(datastore[w]), w)
    /\ added' = added \cup {w}
    /\ UNCHANGED <<batch, owner, datastore, mergers, sorters, last, ncalls, routed, restVars>>

\* line 412
Build ==
    /\ mergers = None
    /\ ~pass_aborted(failure)
    /\ \A d \in DocIds : owner[d] # 0
    /\ \A w \in Workers : datastore[w] # None => w \in added
    /\ mergers' = Some(build(builder))
    /\ UNCHANGED <<batch, owner, datastore, builder, added, sorters, last, ncalls, routed, restVars>>

Next ==
    \/ \E w \in Workers, d \in DocIds : Process(w, d)
    \/ \E w \in Workers : AddSorters(w)
    \/ Build

Spec == Init /\ [][Next]_vars

(***************************************************************************)
(* SpecFallible: run_extraction with errors.  A worker fails on a change   *)
(* through the ? of line 334 (an Err item of the change stream, nothing    *)
(* written) or of lines 446-450 and their likes (the tokenizer or an       *)
(* insert fails after some tokens of the version walked first).  The       *)
(* driver then dispatches no further change; a change in flight on         *)
(* another worker completes or errors.  add_sorters fails through the ? of *)
(* lines 287-291 when into_sorter or into_reader_cursors fails for some    *)
(* streams.                                                                *)
(***************************************************************************)
SmallDocs == {DocEmpty, DocTitle}

InitFallible ==
    /\ Init
    /\ \A d \in DocIds : batch[d].old \in SmallDocs /\ batch[d].new \in SmallDocs

\* the version of the change that is walked first
first_version(change) ==
    IF change.kind = "Insertion" THEN change.new ELSE change.old

\* the accumulator when the walk fails after k tokens
walk_failed(self, change, k) ==
    IF change.kind = "Insertion"
    THEN tokenize_add_range(self, change.new, 1, k, change.docid)
    ELSE tokenize_del_range(self, change.old, 1, k, change.docid)

OwnedBy(w) == { d \in DocIds : owner[d] = w }

\* a loop that goes on after an error
process_goes_on(f, w) == FALSE

\* lines 334-335: process returns at the first error
process_returns(f, w) == w \in f.failed

\* a change in flight when another worker fails is completed, no other is taken
in_flight(f, w) == f.failed # {} /\ w \notin f.late

CanTake(w, d) ==
    /\ mergers = None
    /\ failure.result = None
    /\ owner[d] = 0
    /\ added = {}
    /\ \A x \in Workers : ~Panicked(x)
    /\ ~process_returns(failure, w)
    /\ failure.failed = {} \/ in_flight(failure, w)

\* worker w fails on change d, leaving its accumulator as acc
Fails(w, d, acc) ==
    [failure EXCEPT
        !.failed = @ \cup {w},
        !.at = [x \in DOMAIN @ \cup {w} |->
                  IF x = w THEN <<acc, OwnedBy(w) \cup {d}>> ELSE @[x]]]

\* line 334: the item of the change stream is an Err
ProcessErrItem(w, d) ==
    /\ CanTake(w, d)
    /\ datastore' = [datastore EXCEPT ![w] = Some(init_data(@))]
    /\ owner' = [owner EXCEPT ![d] = w]
    /\ failure' = Fails(w, d, init_data(datastore[w]))
    /\ UNCHANGED <<batch, builder, added, mergers, sorterVars, keyVars, cacheVars, stepVars, weightVars, promptVars>>

\* line 335: extract_document_change returns an error after k tokens
ProcessErrTokens(w, d, k) ==
    /\ CanTake(w, d)
    /\ LET acc == walk_failed(init_data(datastore[w]), batch[d], k)
       IN  /\ ~acc.panicked
           /\ datastore' = [datastore EXCEPT ![w] = Some(acc)]
           /\ failure' = Fails(w, d, acc)
    /\ owner' = [owner EXCEPT ![d] = w]
    /\ UNCHANGED <<batch, builder, added, mergers, sorterVars, keyVars, cacheVars, stepVars, weightVars, promptVars>>

\* a change in flight on another worker completes
ProcessInFlight(w, d) ==
    /\ CanTake(w, d)
    /\ in_flight(failure, w)
    /\ datastore' = [datastore EXCEPT
                        ![w] = Some(extract_document_change(init_data(@), batch[d]))]
    /\ owner' = [owner EXCEPT ![d] = w]
    /\ failure' = [failure EXCEPT !.late = @ \cup {w}]
    /\ UNCHANGED <<batch, builder, added, mergers, sorterVars, keyVars, cacheVars, stepVars, weightVars, promptVars>>

\* line 400: for_each_document_change returned an error
ReturnErr ==
    /\ failure.failed # {}
    /\ failure.result = None
    /\ failure' = [failure EXCEPT !.result = Some("Err")]
    /\ UNCHANGED <<driverVars, sorterVars, keyVars, cacheVars, stepVars, weightVars, promptVars>>

\* lines 287-291, in the order of the five ? operators
StreamOrder ==
    << "word_fid_docids", "word_docids", "exact_word_docids",
       "word_position_docids", "fid_word_count_docids" >>

\* the streams extended before the first ? that meets an error
extended_before(failing) ==
    { StreamOrder[i] : i \in { j \in 1..Len(StreamOrder) :
                                 \A k \in 1..j : StreamOrder[k] \notin failing } }

add_sorters_failed(self, other, worker, failing) ==
    [ target \in Streams |->
        IF target \in extended_before(failing)
        THEN add_sorters(self, other, worker)[target]
        ELSE self[target] ]

\* lines 409: add_sorters returns an error
AddSortersErr(w, failing) ==
    /\ mergers = None
    /\ ~pass_aborted(failure)
    /\ \A d \in DocIds : owner[d] # 0
    /\ \A x \in Workers : ~Panicked(x)
    /\ datastore[w] # None
    /\ w \notin added
    /\ failing # {}
    /\ builder' = add_sorters_failed(builder, unwrap(datastore[w]), w, failing)
    /\ added' = added \cup {w}
    /\ failure' = [failure EXCEPT !.result = Some("Err")]
    /\ UNCHANGED <<batch, owner, datastore, mergers, sorterVars, keyVars, cacheVars, stepVars, weightVars, promptVars>>

FailingStreams == { {"word_fid_docids"}, {"exact_word_docids", "fid_word_count_docids"} }

NextFallible ==
    \/ Next
    \/ \E w \in Workers, d \in DocIds : ProcessErrItem(w, d)
    \/ \E w \in Workers, d \in DocIds :
          \E k \in 0..(Len(first_version(batch[d])) - 1) : ProcessErrTokens(w, d, k)
    \/ \E w \in Workers, d \in DocIds : ProcessInFlight(w, d)
    \/ ReturnErr
    \/ \E w \in Workers, failing \in FailingStreams : AddSortersErr(w, failing)

SpecFallible == InitFallible /\ [][NextFallible]_vars

(***************************************************************************)
(* SpecSteps: the extraction phase call by call.  A worker takes a pending *)
(* change, borrows its accumulator (line 423) and makes the calls of the   *)
(* change on it one at a time: insert_del_u32 for each token of the old    *)
(* version, insert_add_u32 for each token of the new one, then             *)
(* flush_fid_word_count (line 510); the workers' calls interleave.         *)
(***************************************************************************)
\* one accumulator for every worker
shared_data(w) == 1

\* lines 381, 399 and 423: context.data is the accumulator of the worker's thread
context_data(w) == w

\* the calls of a change, in order, without the final flush
CallsOf(change) ==
    [i \in 1..Len(change.old) |-> <<"del", change.old[i]>>]
    \o [i \in 1..Len(change.new) |-> <<"add", change.new[i]>>]

InitSteps ==
    /\ batch \in [DocIds -> UNION { ChangesOf(d) : d \in DocIds }]
    /\ \A d \in DocIds :
          /\ batch[d].docid = d
          /\ batch[d].old \in SmallDocs
          /\ batch[d].new \in SmallDocs
    /\ owner = [d \in DocIds |-> 0]
    /\ datastore = [w \in Workers |-> None]
    /\ builder = WordDocidsMergerBuilders_new
    /\ added = {}
    /\ mergers = None
    /\ SortersIdle
    /\ KeysIdle
    /\ CacheIdle
    /\ failure = NoFailure
    /\ WeightsIdle
    /\ PromptIdle
    /\ running = [w \in Workers |-> None]
    /\ journal = [w \in Workers |-> <<>>]

\* the worker is given a pending change
TakeChange(w, d) ==
    /\ running[w] = None
    /\ owner[d] = 0
    /\ owner' = [owner EXCEPT ![d] = w]
    /\ running' = [running EXCEPT ![w] = Some(<<d, 0>>)]
    /\ UNCHANGED <<batch, datastore, builder, added, mergers, journal,
                   sorterVars, keyVars, cacheVars, failure, weightVars, promptVars>>

InChange(w) == IF running[w] = None THEN 0 ELSE unwrap(running[w])[1]

CallsMade(w) == IF running[w] = None THEN 0 ELSE unwrap(running[w])[2]

\* lines 434-450 and their likes: the token_fn call of the next token
TokenCall(w) ==
    /\ running[w] # None
    /\ CallsMade(w) < Len(CallsOf(batch[InChange(w)]))
    /\ LET d == InChange(w)
           call == CallsOf(batch[d])[CallsMade(w) + 1]
           a == context_data(w)
           acc == init_data(datastore[a])
       IN  /\ datastore' = [datastore EXCEPT ![a] =
                  Some(IF call[1] = "del" THEN token_fn_del(acc, call[2], d)
                                          ELSE token_fn_add(acc, call[2], d))]
           /\ journal' = [journal EXCEPT ![a] = Append(@, <<w, d, call[1]>>)]
           /\ running' = [running EXCEPT ![w] = Some(<<d, CallsMade(w) + 1>>)]
    /\ UNCHANGED <<batch, owner, builder, added, mergers,
                   sorterVars, keyVars, cacheVars, failure, weightVars, promptVars>>

\* line 510, after which the borrow of line 423 ends
FlushCall(w) ==
    /\ running[w] # None
    /\ CallsMade(w) = Len(CallsOf(batch[InChange(w)]))
    /\ LET d == InChange(w)
           a == context_data(w)
       IN  /\ datastore' = [datastore EXCEPT ![a] =
                  Some(flush_fid_word_count(init_data(@)))]
           /\ journal' = [journal EXCEPT ![a] = Append(@, <<w, d, "flush">>)]
    /\ running' = [running EXCEPT ![w] = None]
    /\ UNCHANGED <<batch, owner, builder, added, mergers,
                   sorterVars, keyVars, cacheVars, failure, weightVars, promptVars>>

NextSteps ==
    \/ \E w \in Workers, d \in DocIds : TakeChange(w, d)
    \/ \E w \in Workers : TokenCall(w)
    \/ \E w \in Workers : FlushCall(w)

SpecSteps == InitSteps /\ [][NextSteps]_vars

(***************************************************************************)
(* SpecPass: run_extraction call by call, with errors.  The extraction     *)
(* phase is that of SpecSteps, where a worker may also return an error     *)
(* from the change it is in (the ? of lines 334-335).  When                *)
(* for_each_document_change has returned, which ends its borrow of the     *)
(* datastore (line 398), line 400 returns its error or lets the merger     *)
(* phase begin: datastore.into_iter() (line 408) moves every accumulator   *)
(* out, add_sorters takes them one at a time, and line 412 builds.         *)
(***************************************************************************)
\* a merger phase that does not wait for the extraction
extraction_done_early == \A d \in DocIds : owner[d] # 0

\* lines 394-400: for_each_document_change returned Ok, every change was
\* extracted and no worker is in a change
extraction_done ==
    /\ \A d \in DocIds : owner[d] # 0
    /\ \A w \in Workers : running[w] = None
    /\ failure.failed = {}

\* line 408: into_iter yields each accumulator of the datastore once
into_iter_yields(a) == datastore[a] # None /\ a \notin added

\* the driver gives a change to a worker while no worker has failed
PassTake(w, d) ==
    /\ failure.failed = {}
    /\ TakeChange(w, d)

\* lines 334-335: the worker returns an error from the change it is in
StepErr(w) ==
    /\ running[w] # None
    /\ running' = [running EXCEPT ![w] = None]
    /\ failure' = [failure EXCEPT !.failed = @ \cup {w}]
    /\ UNCHANGED <<driverVars, journal, sorterVars, keyVars, cacheVars, weightVars, promptVars>>

\* line 400: for_each_document_change returned an error
PassReturnErr ==
    /\ failure.failed # {}
    /\ failure.result = None
    /\ \A w \in Workers : running[w] = None
    /\ failure' = [failure EXCEPT !.result = Some("Err")]
    /\ UNCHANGED <<driverVars, stepVars, sorterVars, keyVars, cacheVars, weightVars, promptVars>>

\* lines 408-410, one accumulator; failing are the streams whose conversion
\* fails, the ? of line 409 then returns the error
TakeAccumulator(a, failing) ==
    /\ mergers = None
    /\ failure.result = None
    /\ extraction_done
    /\ into_iter_yields(a)
    /\ builder' = add_sorters_failed(builder, unwrap(datastore[a]), a, failing)
    /\ added' = added \cup {a}
    /\ journal' = [journal EXCEPT ![a] = Append(@, <<0, 0, "add_sorters">>)]
    /\ failure' = IF failing = {} THEN failure
                  ELSE [failure EXCEPT !.result = Some("Err")]
    /\ UNCHANGED <<batch, owner, datastore, mergers, running,
                   sorterVars, keyVars, cacheVars, weightVars, promptVars>>

\* line 412
PassBuild ==
    /\ \A w \in Workers : running[w] = None
    /\ Build

NextPass ==
    \/ \E w \in Workers, d \in DocIds : PassTake(w, d)
    \/ \E w \in Workers : TokenCall(w)
    \/ \E w \in Workers : FlushCall(w)
    \/ \E w \in Workers : StepErr(w)
    \/ PassReturnErr
    \/ \E a \in Workers, failing \in FailingStreams \cup {{}} : TakeAccumulator(a, failing)
    \/ PassBuild

SpecPass == InitSteps /\ [][NextPass]_vars

(***************************************************************************)
(* SpecWeights: FieldidsWeightsMap (src/milli/src/fieldids_weights_map.rs).*)
(* The HashMap is a function from the field ids it holds to their weights; *)
(* FieldId and Weight are u16.                                             *)
(***************************************************************************)
WeightFieldIds == {0, 1, 258}

Weights == {0, 1, 65535}

\* #[derive(Default)]
FieldidsWeightsMap_default == <<>>

\* HashMap::get(..).copied()
hashmap_get(map, fid) == IF fid \in DOMAIN map THEN Some(map[fid]) ELSE None

\* an insert that keeps the weight of a field id already present
hashmap_insert_kept(map, fid, weight) ==
    [f \in DOMAIN map \cup {fid} |-> IF f \in DOMAIN map THEN map[f] ELSE weight]

\* HashMap::insert: the map afterwards
hashmap_insert(map, fid, weight) ==
    [f \in DOMAIN map \cup {fid} |-> IF f = fid THEN weight ELSE map[f]]

\* HashMap::remove: the map afterwards
hashmap_remove(map, fid) == [f \in DOMAIN map \ {fid} |-> map[f]]

\* lines 18-20
FieldidsWeightsMap_insert(map, fid, weight) ==
    [map |-> hashmap_insert(map, fid, weight), ret |-> hashmap_get(map, fid)]

\* lines 23-25
FieldidsWeightsMap_remove(map, fid) ==
    [map |-> hashmap_remove(map, fid), ret |-> hashmap_get(map, fid)]

\* lines 28-30
FieldidsWeightsMap_weight(map, fid) == hashmap_get(map, fid)

\* Iterator::max over the values, visited in some order
RECURSIVE iterator_max(_, _, _)
iterator_max(map, fids, best) ==
    IF fids = {} THEN best
    ELSE LET fid == CHOOSE f \in fids : TRUE
             next == IF best = None THEN Some(map[fid])
                     ELSE IF map[fid] >= unwrap(best) THEN Some(map[fid])
                     ELSE best
         IN  iterator_max(map, fids \ {fid}, next)

\* lines 33-35
FieldidsWeightsMap_max_weight(map) == iterator_max(map, DOMAIN map, None)

InitWeights ==
    /\ weights_map = FieldidsWeightsMap_default
    /\ returned = [op |-> "default", fid |-> 0, weight |-> 0, before |-> <<>>, ret |-> None]
    /\ sorters = WordDocidsCachedSorters_new
    /\ last = NoCall
    /\ ncalls = 0
    /\ routed = {}
    /\ DriverIdle
    /\ KeysIdle
    /\ CacheIdle
    /\ failure = NoFailure
    /\ StepsIdle
    /\ PromptIdle

WeightsInsert(fid, weight) ==
    /\ weights_map' = FieldidsWeightsMap_insert(weights_map, fid, weight).map
    /\ returned' = [op |-> "insert", fid |-> fid, weight |-> weight,
                    before |-> weights_map,
                    ret |-> FieldidsWeightsMap_insert(weights_map, fid, weight).ret]
    /\ UNCHANGED <<sorterVars, driverVars, keyVars, cacheVars, failure, stepVars, promptVars>>

WeightsRemove(fid) ==
    /\ weights_map' = FieldidsWeightsMap_remove(weights_map, fid).map
    /\ returned' = [op |-> "remove", fid |-> fid, weight |-> 0,
                    before |-> weights_map,
                    ret |-> FieldidsWeightsMap_remove(weights_map, fid).ret]
    /\ UNCHANGED <<sorterVars, driverVars, keyVars, cacheVars, failure, stepVars, promptVars>>

WeightsMaxWeight ==
    /\ returned' = [op |-> "max_weight", fid |-> 0, weight |-> 0,
                    before |-> weights_map,
                    ret |-> FieldidsWeightsMap_max_weight(weights_map)]
    /\ UNCHANGED <<weights_map, sorterVars, driverVars, keyVars, cacheVars, failure,
                   stepVars, promptVars>>

NextWeights ==
    \/ \E fid \in WeightFieldIds, weight \in Weights : WeightsInsert(fid, weight)
    \/ \E fid \in WeightFieldIds : WeightsRemove(fid)
    \/ WeightsMaxWeight

SpecWeights == InitWeights /\ [][NextWeights]_vars

(***************************************************************************)
(* SpecPrompt: Prompt::new (src/milli/src/prompt/mod.rs, lines 96-118).    *)
(* A template text is the sequence of its elements; the elements are those *)
(* of the templates of the tests (lines 157-219), and an output whose      *)
(* filter fails when rendered.                                             *)
(***************************************************************************)
\* {{ root.attrs }}
Output(root, attrs) == [kind |-> "output", root |-> root, attrs |-> attrs]

\* {% for field in fields %}{{ field.attrs }}{% endfor %}
ForFields(attrs) == [kind |-> "for", root |-> "field", attrs |-> attrs]

\* "{{doc.title: ", an output that is not closed (line 170)
Unclosed == [kind |-> "unclosed", root |-> "doc", attrs |-> <<"title">>]

\* {% for field in fields %} without its endfor
ForUnclosed == [kind |-> "for_unclosed", root |-> "field", attrs |-> <<>>]

\* {{ 1 | divided_by: 0 }}
DividedByZero == [kind |-> "divided_by_zero", root |-> "", attrs |-> <<>>]

\* ": "
Text == [kind |-> "text", root |-> "", attrs |-> <<>>]

Elements ==
    { Text,
      Output("doc", <<"title">>), Output("doc", <<"actor", "firstName">>),
      Output("title", <<>>), Output("fields", <<>>),
      ForFields(<<>>), ForFields(<<"name">>), ForFields(<<"value">>),
      ForFields(<<"vaelu">>),
      Unclosed, ForUnclosed, DividedByZero }

Templates == UNION { [1..n -> Elements] : n \in 0..MaxTemplateLen }

Ok(x) == [ok |-> TRUE, value |-> x]

Err(e) == [ok |-> FALSE, error |-> e]

\* liquid's parser (lines 102-105): an element that is not closed is a syntax error
liquid_parse(text) ==
    IF \E i \in 1..Len(text) : text[i].kind \in {"unclosed", "for_unclosed"}
    THEN Err("syntax")
    ELSE Ok(text)

\* what rendering one element against the TemplateChecker gives (line 112: the
\* object is OK with doc.* and fields.*; a field has a name and a value)
checked_element(element) ==
    CASE element.kind = "text" -> Ok("")
      [] element.kind = "output" ->
            IF element.root \in {"doc", "fields"} THEN Ok("")
            ELSE Err("unknown variable")
      [] element.kind = "for" ->
            IF element.attrs \in {<<>>, <<"name">>, <<"value">>} THEN Ok("")
            ELSE Err("unknown index")
      [] element.kind = "divided_by_zero" -> Err("invalid argument")
      [] OTHER -> Err("unknown")

\* lines 113-114: the render stops at the first element that fails
RECURSIVE render_checker(_, _)
render_checker(parsed, i) ==
    IF i > Len(parsed) THEN Ok("")
    ELSE IF checked_element(parsed[i]).ok THEN render_checker(parsed, i + 1)
    ELSE checked_element(parsed[i])

\* NewPromptError::cannot_parse_template (lines 171-174)
cannot_parse_template(e) ==
    [kind |-> "CannotParseTemplate", fault |-> "User", inner |-> e]

\* NewPromptError::invalid_fields_in_template (lines 182-185)
invalid_fields_in_template(e) ==
    [kind |-> "InvalidFieldsInTemplate", fault |-> "User", inner |-> e]

\* a constructor that leaves the checker out
Prompt_new_unchecked(text) ==
    IF liquid_parse(text).ok THEN Ok(text)
    ELSE Err(cannot_parse_template(liquid_parse(text).error))

\* lines 96-118
Prompt_new(text) ==
    LET parsed == liquid_parse(text)
    IN  IF ~parsed.ok THEN Err(cannot_parse_template(parsed.error))
        ELSE LET rendered == render_checker(parsed.value, 1)
             IN  IF ~rendered.ok THEN Err(invalid_fields_in_template(rendered.error))
                 ELSE Ok(text)

InitPrompt ==
    /\ template \in Templates
    /\ prompt = None
    /\ sorters = WordDocidsCachedSorters_new
    /\ last = NoCall
    /\ ncalls = 0
    /\ routed = {}
    /\ DriverIdle
    /\ KeysIdle
    /\ CacheIdle
    /\ failure = NoFailure
    /\ StepsIdle
    /\ WeightsIdle

PromptNew ==
    /\ prompt = None
    /\ prompt' = Some(Prompt_new(template))
    /\ UNCHANGED <<template, sorterVars, driverVars, keyVars, cacheVars, failure,
                   stepVars, weightVars>>

NextPrompt == PromptNew

SpecPrompt == InitPrompt /\ [][NextPrompt]_vars

(***************************************************************************)
(* SpecInserts: any sequence of insert_add_u32, insert_del_u32 and         *)
(* flush_fid_word_count calls on one accumulator, one token a call.        *)
(***************************************************************************)
InsertTokens == { <<Title, 0, WordA>>, <<Name, 16, WordB>>, <<NameFirst, 0, WordA>> }

\* the call being made, with the field id of its token
CallOn(op, t, docid) ==
    [ op |-> op, docid |-> docid, field_id |-> fields_ids_map(t[1]),
      fid_word_count |-> sorters.fid_word_count,
      current_docid |-> sorters.current_docid,
      fid_word_count_docids |-> sorters.fid_word_count_docids ]

\* lines 156-196
InsertDel(t, docid) ==
    /\ ncalls < MaxCalls
    /\ sorters' = token_fn_del(sorters, t, docid)
    /\ last' = CallOn("insert_del", t, docid)
    /\ ncalls' = ncalls + 1
    /\ routed' = routed \cup {<<"del", t, docid>>}
    /\ UNCHANGED <<driverVars, restVars>>

\* lines 114-154
InsertAdd(t, docid) ==
    /\ ncalls < MaxCalls
    /\ sorters' = token_fn_add(sorters, t, docid)
    /\ last' = CallOn("insert_add", t, docid)
    /\ ncalls' = ncalls + 1
    /\ routed' = routed \cup {<<"add", t, docid>>}
    /\ UNCHANGED <<driverVars, restVars>>

NextInserts ==
    \/ \E t \in InsertTokens, docid \in DocIds : InsertDel(t, docid)
    \/ \E t \in InsertTokens, docid \in DocIds : InsertAdd(t, docid)
    \/ FlushFidWordCount

SpecInserts == InitSorters /\ [][NextInserts]_vars

(***************************************************************************)
(* SpecFrame: the calls of SpecInserts, each recorded with the whole       *)
(* accumulator it found.                                                   *)
(***************************************************************************)
CallFrom(op, docid) == [ op |-> op, docid |-> docid, self |-> sorters ]

\* lines 156-196
FrameInsertDel(t, docid) ==
    /\ ncalls < MaxCalls
    /\ sorters' = token_fn_del(sorters, t, docid)
    /\ last' = CallFrom("insert_del", docid)
    /\ ncalls' = ncalls + 1
    /\ routed' = routed \cup {<<"del", t, docid>>}
    /\ UNCHANGED <<driverVars, restVars>>

\* lines 114-154
FrameInsertAdd(t, docid) ==
    /\ ncalls < MaxCalls
    /\ sorters' = token_fn_add(sorters, t, docid)
    /\ last' = CallFrom("insert_add", docid)
    /\ ncalls' = ncalls + 1
    /\ routed' = routed \cup {<<"add", t, docid>>}
    /\ UNCHANGED <<driverVars, restVars>>

\* lines 198-219
FrameFlush ==
    /\ ncalls < MaxCalls
    /\ sorters' = flush_fid_word_count(sorters)
    /\ last' = CallFrom("flush", 0)
    /\ ncalls' = ncalls + 1
    /\ UNCHANGED <<routed, driverVars, restVars>>

NextFrame ==
    \/ \E t \in InsertTokens, docid \in DocIds : FrameInsertDel(t, docid)
    \/ \E t \in InsertTokens, docid \in DocIds : FrameInsertAdd(t, docid)
    \/ FrameFlush

SpecFrame == InitSorters /\ [][NextFrame]_vars

(***************************************************************************)
(* SpecKeys: the word_fid_docids and word_position_docids keys of two      *)
(* tokens (lines 130-141).  A word is any str: its bytes may include 0.    *)
(***************************************************************************)
KeyBytes == {0, 97, 98}

KeyWords == UNION { [1..n -> KeyBytes] : n \in 1..MaxWordLen }

KeyFieldIds == {0, 25089}

KeyPositions == {0, 17}

InitKeys ==
    /\ tokens \in [ w1 : KeyWords, f1 : KeyFieldIds, p1 : KeyPositions,
                    w2 : KeyWords, f2 : KeyFieldIds, p2 : KeyPositions ]
    /\ keys = None
    /\ sorters = WordDocidsCachedSorters_new
    /\ last = NoCall
    /\ ncalls = 0
    /\ routed = {}
    /\ DriverIdle
    /\ CacheIdle
    /\ failure = NoFailure
    /\ StepsIdle
    /\ WeightsIdle
    /\ PromptIdle

\* lines 130-133 and 136-140, for each of the two tokens
BuildKeys ==
    /\ keys = None
    /\ keys' = Some([ fid1 |-> word_fid_key(tokens.w1, tokens.f1),
                      fid2 |-> word_fid_key(tokens.w2, tokens.f2),
                      pos1 |-> word_position_key(tokens.w1, tokens.p1),
                      pos2 |-> word_position_key(tokens.w2, tokens.p2) ])
    /\ UNCHANGED <<tokens, sorterVars, driverVars, cacheVars, failure, stepVars, weightVars, promptVars>>

NextKeys == BuildKeys

SpecKeys == InitKeys /\ [][NextKeys]_vars

(***************************************************************************)
(* SpecCache: one CboCachedSorter (the type of the five fields of lines    *)
(* 25-29): a bounded LRU cache from key to a pending DelAdd pair in front  *)
(* of a sorter.  cache is in order of use, least recently used first;      *)
(* sorter is the sequence of entries written to the underlying sorter.     *)
(***************************************************************************)
CboCachedSorter_new(capacity) ==
    [capacity |-> capacity, cache |-> <<>>, sorter |-> <<>>]

\* the DelAdd pair of a first write
new_del_u32(n) == [del |-> {n}, add |-> {}]

new_add_u32(n) == [del |-> {}, add |-> {n}]

\* the entry is handed to the underlying sorter in the DelAdd encoding
write_entry(sorter, entry) == Append(sorter, entry)

\* an eviction that writes nothing
evict_dropped(self) == [self EXCEPT !.cache = Tail(@)]

\* the least recently used entry leaves the cache for the sorter
evict(self) ==
    [self EXCEPT !.cache = Tail(@), !.sorter = write_entry(@, Head(self.cache))]

\* a new entry, after an eviction when the cache is full
cache_push(self, key, deladd) ==
    LET room == IF Len(self.cache) >= self.capacity THEN evict(self) ELSE self
    IN  [room EXCEPT !.cache = Append(@, [key |-> key, del |-> deladd.del,
                                          add |-> deladd.add])]

CachedAt(self, key) == { i \in 1..Len(self.cache) : self.cache[i].key = key }

\* the entry at i, updated, becomes the most recently used
cache_update(self, i, entry) ==
    [self EXCEPT !.cache =
        Append(SubSeq(@, 1, i - 1) \o SubSeq(@, i + 1, Len(@)), entry)]

cached_insert_del_u32(self, key, n) ==
    IF CachedAt(self, key) # {}
    THEN LET i == CHOOSE j \in CachedAt(self, key) : TRUE
         IN  cache_update(self, i, [self.cache[i] EXCEPT !.del = @ \cup {n}])
    ELSE cache_push(self, key, new_del_u32(n))

cached_insert_add_u32(self, key, n) ==
    IF CachedAt(self, key) # {}
    THEN LET i == CHOOSE j \in CachedAt(self, key) : TRUE
         IN  cache_update(self, i, [self.cache[i] EXCEPT !.add = @ \cup {n}])
    ELSE cache_push(self, key, new_add_u32(n))

\* every remaining entry is written, the underlying sorter is yielded
RECURSIVE into_sorter(_)
into_sorter(self) ==
    IF self.cache = <<>> THEN self.sorter ELSE into_sorter(evict(self))

CacheKeys == {WordA, WordB, WordAB}

InitCache ==
    /\ cbo \in { CboCachedSorter_new(capacity) : capacity \in 1..MaxCapacity }
    /\ inserted = {}
    /\ finished = None
    /\ sorters = WordDocidsCachedSorters_new
    /\ last = NoCall
    /\ ncalls = 0
    /\ routed = {}
    /\ DriverIdle
    /\ KeysIdle
    /\ failure = NoFailure
    /\ StepsIdle
    /\ WeightsIdle
    /\ PromptIdle

CachedInsertDel(key, n) ==
    /\ finished = None
    /\ Cardinality(inserted) < MaxInserts
    /\ <<key, "del", n>> \notin inserted
    /\ cbo' = cached_insert_del_u32(cbo, key, n)
    /\ inserted' = cbo_insert_del_u32(inserted, key, n)
    /\ UNCHANGED <<finished, sorterVars, driverVars, keyVars, failure, stepVars, weightVars, promptVars>>

CachedInsertAdd(key, n) ==
    /\ finished = None
    /\ Cardinality(inserted) < MaxInserts
    /\ <<key, "add", n>> \notin inserted
    /\ cbo' = cached_insert_add_u32(cbo, key, n)
    /\ inserted' = cbo_insert_add_u32(inserted, key, n)
    /\ UNCHANGED <<finished, sorterVars, driverVars, keyVars, failure, stepVars, weightVars, promptVars>>

\* lines 268, 272, 276, 280, 284: into_sorter()
IntoSorter ==
    /\ finished = None
    /\ finished' = Some(into_sorter(cbo))
    /\ UNCHANGED <<cbo, inserted, sorterVars, driverVars, keyVars, failure, stepVars, weightVars, promptVars>>

NextCache ==
    \/ \E key \in CacheKeys, n \in DocIds : CachedInsertDel(key, n)
    \/ \E key \in CacheKeys, n \in DocIds : CachedInsertAdd(key, n)
    \/ IntoSorter

SpecCache == InitCache /\ [][NextCache]_vars

(***************************************************************************)
(* What the claims speak of, stated apart from the operators above.        *)
(***************************************************************************)
BE(n) == <<n \div 256, n % 256>>

\* field_name is contained in some entry of the exact-attribute configuration
ExactField(fname) ==
    \E attr \in exact_attributes :
        \E n \in 0..Len(fname) : SubSeq(fname, 1, n) = attr

TokenCount(document, fid) ==
    Cardinality({ i \in 1..Len(document) : fields_ids_map(document[i][1]) = fid })

FieldIdsOf(document) ==
    { fields_ids_map(document[i][1]) : i \in 1..Len(document) }

\* C4: for every token (fid, pos, word, exact, docid) passed to insert_add_u32
\* (insert_del_u32), the add (del) side of word in exact_word_docids if exact and
\* in word_docids otherwise, of word 0x00 be(fid) in word_fid_docids and of
\* word 0x00 be(bucketed_position(pos)) in word_position_docids holds docid, and
\* the four streams hold nothing else.
C4_TokenKeys ==
    /\ sorters.word_docids =
         { <<r[2][3], r[1], r[3]>> :
             r \in { x \in routed : ~is_exact_attribute(x[2][1]) } }
    /\ sorters.exact_word_docids =
         { <<r[2][3], r[1], r[3]>> :
             r \in { x \in routed : is_exact_attribute(x[2][1]) } }
    /\ sorters.word_fid_docids =
         { <<r[2][3] \o <<0>> \o BE(fields_ids_map(r[2][1])), r[1], r[3]>> :
             r \in routed }
    /\ sorters.word_position_docids =
         { <<r[2][3] \o <<0>> \o BE(bucketed_position(r[2][2])), r[1], r[3]>> :
             r \in routed }

\* both operations have been used, on an exact and on a non-exact field, and
\* on a position that is bucketed
C4_Witness ==
    /\ \E r \in routed : r[1] = "add" /\ is_exact_attribute(r[2][1]) /\ r[2][2] >= 16
    /\ \E r \in routed : r[1] = "del" /\ ~is_exact_attribute(r[2][1])
    /\ sorters.exact_word_docids # {}
    /\ sorters.word_docids # {}

\* C7: no key of fid_word_count_docids has a count byte above 30, and every key
\* a call writes is be(fid) followed by a count of the tally the call found,
\* under the docid the call found (the byte is the count, not a truncation).
C7_CountCeiling ==
    /\ \A e \in sorters.fid_word_count_docids :
         Len(e[1]) = 3 /\ e[1][3] <= 30
    /\ \A e \in sorters.fid_word_count_docids \ last.fid_word_count_docids :
         /\ last.current_docid # None
         /\ e[3] = last.current_docid[1]
         /\ \E fid \in DOMAIN last.fid_word_count :
              \E c \in { last.fid_word_count[fid][1], last.fid_word_count[fid][2] } :
                  e[1] = BE(fid) \o <<c>>

\* a flush found a count above 30 beside a count of 30, and wrote
C7_Witness ==
    /\ last.op = "flush"
    /\ \E fid \in DOMAIN last.fid_word_count :
         last.fid_word_count[fid][2] > 30 /\ last.fid_word_count[fid][1] <= 30
    /\ \E e \in sorters.fid_word_count_docids \ last.fid_word_count_docids :
         e[1][3] = 30

ExpectedFlush(tally, docid) ==
    { <<BE(fid) \o <<tally[fid][1] % 256>>, "del", docid>> :
        fid \in { f \in DOMAIN tally :
                    tally[f][1] # tally[f][2] /\ tally[f][1] <= 30 } }
    \cup
    { <<BE(fid) \o <<tally[fid][2] % 256>>, "add", docid>> :
        fid \in { f \in DOMAIN tally :
                    tally[f][1] # tally[f][2] /\ tally[f][2] <= 30 } }

\* C10: flush_fid_word_count writes, for each tally entry (fid, (prev, next)),
\* the current docid to the del side of be(fid) u8(prev) iff prev # next and
\* prev <= 30, and to the add side of be(fid) u8(next) iff prev # next and
\* next <= 30, nothing when prev = next, and leaves the tally empty.
C10_Flush ==
    last.op = "flush" =>
        /\ sorters.fid_word_count = EmptyTally
        /\ sorters.fid_word_count_docids =
             last.fid_word_count_docids \cup
             (IF DOMAIN last.fid_word_count = {} THEN {}
              ELSE ExpectedFlush(last.fid_word_count, last.current_docid[1]))

\* a flush found a field whose count is unchanged beside one whose count
\* changed
C10_Witness ==
    /\ last.op = "flush"
    /\ \E fid \in DOMAIN last.fid_word_count :
         last.fid_word_count[fid][1] = last.fid_word_count[fid][2]
    /\ \E fid \in DOMAIN last.fid_word_count :
         last.fid_word_count[fid][1] # last.fid_word_count[fid][2]
    /\ sorters.fid_word_count_docids # last.fid_word_count_docids

(***************************************************************************)
(* Claims on run_extraction (Spec).                                        *)
(***************************************************************************)
\* the keys a document version emits into a stream
EmittedKeys(document, stream) ==
    LET I == 1..Len(document)
    IN  CASE stream = "word_docids" ->
                { document[i][3] : i \in { j \in I : ~ExactField(document[j][1]) } }
          [] stream = "exact_word_docids" ->
                { document[i][3] : i \in { j \in I : ExactField(document[j][1]) } }
          [] stream = "word_fid_docids" ->
                { document[i][3] \o <<0>> \o BE(fields_ids_map(document[i][1])) : i \in I }
          [] stream = "word_position_docids" ->
                { document[i][3] \o <<0>> \o BE(bucketed_position(document[i][2])) : i \in I }
          [] stream = "fid_word_count_docids" ->
                { BE(fid) \o <<TokenCount(document, fid)>> :
                    fid \in { f \in FieldIdsOf(document) :
                                TokenCount(document, f) <= 30 } }

WordStreams ==
    { "word_fid_docids", "word_docids", "exact_word_docids", "word_position_docids" }

Processed(d) == owner[d] # 0

AccOf(d) == unwrap(datastore[owner[d]])

\* the entries of a stream that carry docid d
EntriesOf(sorter, d) == { e \in sorter : e[3] = d }

\* C1: a Deletion writes its docid only to del sides, an Insertion only to add
\* sides, an Update to del sides only what the old version contributes and to
\* add sides only what the new version contributes, in all five streams.
C1_SidesOfChange ==
    \A d \in DocIds : Processed(d) =>
        \A stream \in Streams : \A e \in EntriesOf(AccOf(d)[stream], d) :
            /\ batch[d].kind = "Deletion" => e[2] = "del"
            /\ batch[d].kind = "Insertion" => e[2] = "add"
            /\ e[2] = "del" => e[1] \in EmittedKeys(batch[d].old, stream)
            /\ e[2] = "add" => e[1] \in EmittedKeys(batch[d].new, stream)

RECURSIVE RunAlone(_, _)
RunAlone(self, changes) ==
    IF changes = <<>> THEN self
    ELSE RunAlone(extract_document_change(self, Head(changes)), Tail(changes))

DeletionThenInsertion(change) ==
    RunAlone(WordDocidsCachedSorters_new,
             << Deletion(change.docid, change.old),
                Insertion(change.docid, change.new) >>)

\* the workers that processed one change only, an Update
LoneUpdates ==
    { d \in DocIds :
        /\ Processed(d)
        /\ batch[d].kind = "Update"
        /\ \A o \in DocIds \ {d} : owner[o] # owner[d] }

\* C2 as stated: Update(d, old, new) alone yields the same five streams as
\* Deletion(d, old) followed by Insertion(d, new).
C2_UpdateIsDeletionInsertion ==
    \A d \in LoneUpdates :
        LET other == DeletionThenInsertion(batch[d])
        IN  \A stream \in Streams : AccOf(d)[stream] = other[stream]

\* C2 amended: Update(d, old, new) alone yields the same word_docids,
\* exact_word_docids, word_fid_docids and word_position_docids as Deletion(d, old)
\* followed by Insertion(d, new), and its fid_word_count_docids entries are among
\* those of Deletion(d, old) followed by Insertion(d, new).
C2_UpdateWordStreams ==
    \A d \in LoneUpdates :
        LET other == DeletionThenInsertion(batch[d])
        IN  /\ \A stream \in WordStreams : AccOf(d)[stream] = other[stream]
            /\ AccOf(d).fid_word_count_docids \subseteq other.fid_word_count_docids

\* an Update whose versions differ was processed alone, and wrote both sides
C2_Witness ==
    \E d \in LoneUpdates :
        /\ batch[d].old # batch[d].new
        /\ \E e \in AccOf(d).word_docids : e[2] = "del"
        /\ \E e \in AccOf(d).word_docids : e[2] = "add"
        /\ AccOf(d).fid_word_count_docids # {}

Merged(stream) ==
    LET m == unwrap(mergers)[stream]
    IN  { m[i] : i \in 1..Len(m) }

ExpectedStream(stream) ==
    LET old == [d \in DocIds |-> EmittedKeys(batch[d].old, stream)]
        new == [d \in DocIds |-> EmittedKeys(batch[d].new, stream)]
    IN  { [ key |-> k,
            del |-> { d \in DocIds : k \in old[d] },
            add |-> { d \in DocIds : k \in new[d] } ] :
          k \in UNION { old[d] \cup new[d] : d \in DocIds } }

\* the docids whose field fid goes from another number of tokens to count
CountBecomes(fid, count, from, to) ==
    { d \in DocIds :
        /\ TokenCount(batch[d][to], fid) = count
        /\ TokenCount(batch[d][from], fid) # count }

ExpectedCounts ==
    LET fids == UNION { FieldIdsOf(batch[d].old) \cup FieldIdsOf(batch[d].new) :
                        d \in DocIds }
        all == { [ key |-> BE(fid) \o <<c>>,
                   del |-> CountBecomes(fid, c, "new", "old"),
                   add |-> CountBecomes(fid, c, "old", "new") ] :
                 fid \in fids, c \in 0..MAX_COUNTED_WORDS }
    IN  { x \in all : x.del # {} \/ x.add # {} }

BatchSeq == [i \in 1..Cardinality(DocIds) |-> batch[i]]

SingleWorkerMergers ==
    build(add_sorters(WordDocidsMergerBuilders_new,
                      RunAlone(WordDocidsCachedSorters_new, BatchSeq), 1))

\* C5: whatever the partition of the batch across the workers and the order in
\* which each worker takes its changes, the five mergers yield the same keys in
\* the same order with the same del and add docids as one worker processing the
\* batch.
C5_AnyPartition ==
    mergers # None => unwrap(mergers) = SingleWorkerMergers

\* the pass is over, the changes were processed by different workers, and a key
\* holds the docids of both
C5_Witness ==
    /\ mergers # None
    /\ \E d1 \in DocIds, d2 \in DocIds : owner[d1] # owner[d2]
    /\ \E x \in Merged("word_position_docids") : Cardinality(x.add) > 1
    /\ Len(unwrap(mergers).word_fid_docids) > 1
    /\ Merged("fid_word_count_docids") # {}

\* the tokens of change d that go through insert_del_u32 / insert_add_u32
TokensOfSide(d, side) == IF side = "del" THEN batch[d].old ELSE batch[d].new

WordsOfField(d, side, exact) ==
    LET document == TokensOfSide(d, side)
    IN  { document[i][3] :
            i \in { j \in 1..Len(document) : ExactField(document[j][1]) = exact } }

\* C6: a token is written to exact_word_docids iff its field name is contained
\* in some entry of the exact-attribute configuration, and to word_docids
\* otherwise; a word of a document is in both only through tokens of different
\* fields.
C6_ExactRouting ==
    \A d \in DocIds : Processed(d) =>
        \A side \in {"del", "add"} :
            /\ { e[1] : e \in { x \in EntriesOf(AccOf(d).exact_word_docids, d) :
                                  x[2] = side } }
                 = WordsOfField(d, side, TRUE)
            /\ { e[1] : e \in { x \in EntriesOf(AccOf(d).word_docids, d) :
                                  x[2] = side } }
                 = WordsOfField(d, side, FALSE)

\* a document was processed with the same word in a field contained in an exact
\* attribute and in another field, and one with a word only in an exact field
C6_Witness ==
    /\ \E d \in DocIds :
        /\ Processed(d)
        /\ <<WordA, "add", d>> \in AccOf(d).exact_word_docids
        /\ <<WordA, "add", d>> \in AccOf(d).word_docids
    /\ \E d \in DocIds :
        /\ Processed(d)
        /\ <<WordB, "del", d>> \in AccOf(d).exact_word_docids
        /\ <<WordB, "del", d>> \notin AccOf(d).word_docids

\* C8: an Insertion whose field produces 31 tokens or more leaves no entry for
\* that field and that document in fid_word_count_docids, on either side.
C8_SilentAboveCeiling ==
    \A d \in DocIds : (Processed(d) /\ batch[d].kind = "Insertion") =>
        \A fid \in FieldIdsOf(batch[d].new) :
            TokenCount(batch[d].new, fid) > MAX_COUNTED_WORDS =>
                ~ \E e \in EntriesOf(AccOf(d).fid_word_count_docids, d) :
                    SubSeq(e[1], 1, 2) = BE(fid)

\* the entries of fid_word_count_docids the counts of one change give
CountsOfChange(d) ==
    LET fids == FieldIdsOf(batch[d].old) \cup FieldIdsOf(batch[d].new)
        prev(f) == TokenCount(batch[d].old, f)
        next(f) == TokenCount(batch[d].new, f)
    IN  { <<BE(f) \o <<prev(f)>>, "del", d>> :
            f \in { x \in fids : prev(x) # next(x) /\ prev(x) <= MAX_COUNTED_WORDS } }
        \cup
        { <<BE(f) \o <<next(f)>>, "add", d>> :
            f \in { x \in fids : prev(x) # next(x) /\ next(x) <= MAX_COUNTED_WORDS } }

\* C9: the fid_word_count_docids entries that carry docid d are given by d's own
\* old and new token counts per field, whatever else its worker processed before
\* or after.
C9_OwnCounts ==
    \A d \in DocIds : Processed(d) =>
        EntriesOf(AccOf(d).fid_word_count_docids, d) = CountsOfChange(d)

\* one worker processed two changes that both have counted fields
C9_Witness ==
    \E d1 \in DocIds, d2 \in DocIds :
        /\ d1 # d2
        /\ Processed(d1)
        /\ owner[d1] = owner[d2]
        /\ CountsOfChange(d1) # {}
        /\ CountsOfChange(d2) # {}
        /\ CountsOfChange(d1) # { <<e[1], e[2], d1>> : e \in CountsOfChange(d2) }

(***************************************************************************)
(* Claims on the keys (SpecKeys).                                          *)
(***************************************************************************)
\* C11 as stated: for any two words w1 < w2 in bytewise order and any field ids
\* and positions, the word_fid_docids key of w1 is strictly less than that of
\* w2, and so are the word_position_docids keys.
C11_KeyOrder ==
    (keys # None /\ KeyLess(tokens.w1, tokens.w2)) =>
        /\ KeyLess(unwrap(keys).fid1, unwrap(keys).fid2)
        /\ KeyLess(unwrap(keys).pos1, unwrap(keys).pos2)

NulFree(word) == \A i \in 1..Len(word) : word[i] # 0

\* C11 amended: that holds for any two words w1 < w2 that contain no 0x00 byte.
C11_KeyOrderNulFree ==
    (keys # None /\ KeyLess(tokens.w1, tokens.w2)
       /\ NulFree(tokens.w1) /\ NulFree(tokens.w2)) =>
        /\ KeyLess(unwrap(keys).fid1, unwrap(keys).fid2)
        /\ KeyLess(unwrap(keys).pos1, unwrap(keys).pos2)

\* the keys of a word and of a longer word it is a prefix of, the shorter with
\* the greater field id and position
C11_Witness ==
    /\ keys # None
    /\ NulFree(tokens.w1) /\ NulFree(tokens.w2)
    /\ Len(tokens.w1) < Len(tokens.w2)
    /\ SubSeq(tokens.w2, 1, Len(tokens.w1)) = tokens.w1
    /\ tokens.f1 > tokens.f2
    /\ tokens.p1 > tokens.p2

(***************************************************************************)
(* Claims on the cached sorter (SpecCache).                                *)
(***************************************************************************)
\* the merged content of a sorter: the docids of each key and side
MergedContent(sorter) ==
    UNION { { <<sorter[i].key, "del", n>> : n \in sorter[i].del }
            \cup { <<sorter[i].key, "add", n>> : n \in sorter[i].add } :
            i \in 1..Len(sorter) }

\* C12: for any capacity >= 1 and any sequence of insert_add_u32 and
\* insert_del_u32 calls followed by into_sorter, the merged content of the
\* sorter has for every key the add docids passed to insert_add_u32 and the del
\* docids passed to insert_del_u32 for that key.
C12_NothingLost ==
    finished # None => MergedContent(unwrap(finished)) = inserted

\* a key was evicted and passed again: into_sorter wrote its second entry, so
\* that the sorter holds two entries of the key, one with the del docid and one
\* with the add docid
C12_Witness ==
    /\ finished # None
    /\ Len(unwrap(finished)) > Len(cbo.sorter)
    /\ \E i, j \in 1..Len(unwrap(finished)) :
          /\ i < j
          /\ unwrap(finished)[i].key = unwrap(finished)[j].key
          /\ unwrap(finished)[i].del # {}
          /\ unwrap(finished)[j].add # {}

(***************************************************************************)
(* Claims on errors (SpecFallible).                                        *)
(***************************************************************************)
\* C13: if any step of the pass fails (an Err item, an error inside a change,
\* a failure of into_sorter or into_reader_cursors), run_extraction yields no
\* WordDocidsMergers, and the worker that hit the error processes no further
\* change: its accumulator and its changes stay as the error left them.
C13_NoPartialOutput ==
    /\ (failure.failed # {} \/ failure.result # None) => mergers = None
    /\ \A w \in failure.failed :
          /\ datastore[w] = Some(failure.at[w][1])
          /\ OwnedBy(w) = failure.at[w][2]

\* a worker failed inside a change after writing a token, another worker then
\* completed the change it had in flight, and run_extraction returned the error
C13_Witness ==
    /\ failure.result = Some("Err")
    /\ failure.late # {}
    /\ \E w \in failure.failed : failure.at[w][1].word_docids # {}
    /\ \A d \in DocIds : owner[d] # 0
    /\ mergers = None

(***************************************************************************)
(* Further claims on run_extraction (Spec).                                *)
(***************************************************************************)
\* the keys of a stream that both versions of change d emit
KeptKeys(d, stream) ==
    EmittedKeys(batch[d].old, stream) \cap EmittedKeys(batch[d].new, stream)

ProcessedUpdates == { d \in DocIds : Processed(d) /\ batch[d].kind = "Update" }

\* C14 as stated: for an Update(d, old, new) and any key of any stream emitted
\* by both versions, d is on the del side and on the add side of that key.
C14_BothSidesAllStreams ==
    \A d \in ProcessedUpdates : \A stream \in Streams :
        \A k \in KeptKeys(d, stream) :
            /\ <<k, "del", d>> \in AccOf(d)[stream]
            /\ <<k, "add", d>> \in AccOf(d)[stream]

\* C14 amended: that holds of the keys of word_docids, exact_word_docids,
\* word_fid_docids and word_position_docids, in the accumulator and in the
\* mergers; for a key of fid_word_count_docids emitted by both versions (a field
\* whose token count is unchanged) d is on neither side.
C14_BothSides ==
    \A d \in ProcessedUpdates :
        /\ \A stream \in WordStreams : \A k \in KeptKeys(d, stream) :
              /\ <<k, "del", d>> \in AccOf(d)[stream]
              /\ <<k, "add", d>> \in AccOf(d)[stream]
              /\ mergers # None =>
                    \E x \in Merged(stream) :
                        x.key = k /\ d \in x.del /\ d \in x.add
        /\ \A k \in KeptKeys(d, "fid_word_count_docids") :
              /\ <<k, "del", d>> \notin AccOf(d).fid_word_count_docids
              /\ <<k, "add", d>> \notin AccOf(d).fid_word_count_docids

\* the pass is over with an Update that keeps a word and a position but not its
\* other words, and whose field keeps its number of tokens
C14_Witness ==
    /\ mergers # None
    /\ \E d \in ProcessedUpdates :
          /\ batch[d].old # batch[d].new
          /\ KeptKeys(d, "word_docids") # {}
          /\ KeptKeys(d, "word_position_docids") # {}
          /\ KeptKeys(d, "fid_word_count_docids") # {}
          /\ EmittedKeys(batch[d].old, "word_docids") # KeptKeys(d, "word_docids")

(***************************************************************************)
(* Claims on the interleaving of the workers (SpecSteps).                  *)
(***************************************************************************)
\* C15: each accumulator is written by one worker only, the calls of a change
\* are all made on the accumulator of the worker processing it, and between
\* the first call of a change and its flush no call of another change is made
\* on that accumulator.
C15_OwnAccumulator ==
    \A a \in Workers :
        LET log == journal[a]
        IN  /\ \A i \in 1..Len(log) :
                  /\ log[i][1] = a
                  /\ owner[log[i][2]] = a
            /\ \A i, j \in 1..Len(log) :
                  (i < j /\ log[i][2] = log[j][2]) =>
                      /\ log[i][3] # "flush"
                      /\ \A k \in i..j : log[k][2] = log[i][2]

\* worker 2 has made the four token calls and the flush of an Update while
\* worker 1 was inside its own change
C15_Witness ==
    /\ owner[1] = 1 /\ owner[2] = 2
    /\ running[1] # None
    /\ CallsMade(1) = 1
    /\ Len(journal[1]) = 1
    /\ Len(journal[2]) = 5
    /\ journal[2][5][3] = "flush"

(***************************************************************************)
(* Claims on FieldidsWeightsMap (SpecWeights).                             *)
(***************************************************************************)
StoredWeights(map) == { map[f] : f \in DOMAIN map }

\* C16: insert returns None if fid was absent and otherwise the weight stored
\* before, and weight(fid) is then w; remove returns the weight stored before
\* (None if absent), and weight(fid) is then None; the entries of the other
\* field ids are unchanged; max_weight is the maximum of the stored weights,
\* None exactly when the map is empty.
C16_WeightsMap ==
    /\ returned.op = "insert" =>
          /\ returned.ret = (IF returned.fid \in DOMAIN returned.before
                                THEN <<returned.before[returned.fid]>> ELSE <<>>)
          /\ FieldidsWeightsMap_weight(weights_map, returned.fid) = <<returned.weight>>
    /\ returned.op = "remove" =>
          /\ returned.ret = (IF returned.fid \in DOMAIN returned.before
                                THEN <<returned.before[returned.fid]>> ELSE <<>>)
          /\ FieldidsWeightsMap_weight(weights_map, returned.fid) = <<>>
    /\ returned.op \in {"insert", "remove"} =>
          \A f \in WeightFieldIds \ {returned.fid} :
              FieldidsWeightsMap_weight(weights_map, f)
                = FieldidsWeightsMap_weight(returned.before, f)
    /\ LET max == FieldidsWeightsMap_max_weight(weights_map)
       IN  /\ max = <<>> <=> DOMAIN weights_map = {}
           /\ DOMAIN weights_map # {} =>
                 /\ max[1] \in StoredWeights(weights_map)
                 /\ \A w \in StoredWeights(weights_map) : w <= max[1]

\* an insert replaced a weight in a map of three field ids, the greatest weight
\* by a smaller one
C16_Witness ==
    /\ returned.op = "insert"
    /\ Cardinality(DOMAIN weights_map) = 3
    /\ returned.ret = <<65535>>
    /\ returned.weight = 0
    /\ FieldidsWeightsMap_max_weight(weights_map) = <<1>>

(***************************************************************************)
(* Claims on Prompt::new (SpecPrompt).                                     *)
(***************************************************************************)
\* the template has an element that is not closed
DoesNotParse(text) ==
    \E i \in 1..Len(text) : text[i].kind \in {"unclosed", "for_unclosed"}

\* the template references something else than doc.* and fields.*, or an
\* attribute of a field that is neither its name nor its value
InvalidReference(text) ==
    \E i \in 1..Len(text) :
        \/ text[i].kind = "output" /\ text[i].root \notin {"doc", "fields"}
        \/ text[i].kind = "for" /\ text[i].attrs \notin {<<>>, <<"name">>, <<"value">>}

\* the template has an output that fails whatever it is rendered against
FailingFilter(text) ==
    \E i \in 1..Len(text) : text[i].kind = "divided_by_zero"

IsErr(result, kind) ==
    IF result.ok THEN FALSE
    ELSE result.error.kind = kind /\ result.error.fault = "User"

\* C17 as stated: a template that does not parse yields CannotParseTemplate
\* with fault User; one that parses but references anything other than doc.* or
\* fields.*, or an invalid attribute of a field, yields InvalidFieldsInTemplate
\* with fault User; every other template, the empty one included, yields Ok.
C17_TwoStages ==
    prompt # None =>
        LET result == unwrap(prompt)
        IN  IF DoesNotParse(template) THEN IsErr(result, "CannotParseTemplate")
            ELSE IF InvalidReference(template)
                 THEN IsErr(result, "InvalidFieldsInTemplate")
                 ELSE result.ok

\* C17 amended: a template that does not parse yields CannotParseTemplate with
\* fault User; one that parses but whose render against the checker fails,
\* because of such a reference or for any other reason, yields
\* InvalidFieldsInTemplate with fault User; every other template, the empty one
\* included, yields Ok.
C17_TwoStagesAnyRenderError ==
    prompt # None =>
        LET result == unwrap(prompt)
        IN  IF DoesNotParse(template) THEN IsErr(result, "CannotParseTemplate")
            ELSE IF InvalidReference(template) \/ FailingFilter(template)
                 THEN IsErr(result, "InvalidFieldsInTemplate")
                 ELSE result.ok

\* Prompt::new was given a template that has an invalid reference before an
\* element that does not parse
C17_Witness ==
    /\ prompt # None
    /\ Len(template) = 2
    /\ template[1] = Output("title", <<>>)
    /\ template[2] = Unclosed
    /\ IsErr(unwrap(prompt), "CannotParseTemplate")

(***************************************************************************)
(* Claims on the merger builders (Spec).                                   *)
(***************************************************************************)
\* the workers that have an accumulator
WithData == { w \in Workers : datastore[w] # None }

\* C18: the reader cursors of a stream of a worker's accumulator are added to
\* the merger builder of that stream and of no other; once add_sorters has run
\* for every worker, each stream's merger has the cursors of that stream from
\* every worker, none missing and none cross-wired.
C18_CursorsReachTheirMerger ==
    /\ \A target \in Streams : \A c \in builder[target] :
          /\ c.stream = target
          /\ c.worker \in added
          /\ c.entries = unwrap(datastore[c.worker])[target]
    /\ \A w \in added : \A stream \in Streams :
          Cardinality({ c \in builder[stream] : c.worker = w }) = 1
    /\ mergers # None =>
          /\ added = WithData
          /\ \A stream \in Streams :
                LET all == UNION { unwrap(datastore[w])[stream] : w \in WithData }
                IN  Merged(stream) =
                        { [ key |-> k,
                            del |-> { e[3] : e \in { x \in all : x[1] = k /\ x[2] = "del" } },
                            add |-> { e[3] : e \in { x \in all : x[1] = k /\ x[2] = "add" } } ] :
                          k \in { e[1] : e \in all } }

\* the mergers are built from two accumulators, both with exact and non-exact
\* words
C18_Witness ==
    /\ mergers # None
    /\ Cardinality(added) = 2
    /\ \A w \in added :
          /\ unwrap(datastore[w]).word_docids # {}
          /\ unwrap(datastore[w]).exact_word_docids # {}
    /\ \E w1, w2 \in added :
          unwrap(datastore[w1]).word_docids # unwrap(datastore[w2]).word_docids

\* C19: after every change processed without error flush_fid_word_count has
\* been called with the tally of that change: the tally of a worker's
\* accumulator is empty whenever the worker starts its next change, when the
\* pass completes and when the accumulator is handed to add_sorters, and the
\* counts of the processed changes are in fid_word_count_docids.
C19_NothingUnflushed ==
    \A w \in WithData :
        /\ ~unwrap(datastore[w]).panicked
        /\ unwrap(datastore[w]).fid_word_count = EmptyTally
        /\ \A d \in OwnedBy(w) :
              CountsOfChange(d) \subseteq unwrap(datastore[w]).fid_word_count_docids

\* a worker has processed two changes that both have counts, and its
\* accumulator has been handed to add_sorters
C19_Witness ==
    \E w \in added :
        /\ OwnedBy(w) = DocIds
        /\ \A d \in DocIds : CountsOfChange(d) # {}
        /\ CountsOfChange(1) # { <<e[1], e[2], 1>> : e \in CountsOfChange(2) }

(***************************************************************************)
(* Claims on single inserts (SpecInserts).                                 *)
(***************************************************************************)
\* the last call was an insert with a docid that is not the current one
DocidChanged ==
    IF last.op \notin {"insert_add", "insert_del"} THEN FALSE
    ELSE IF last.current_docid = <<>> THEN TRUE
    ELSE last.current_docid[1] # last.docid

\* C20: an insert_add_u32 or insert_del_u32 with a docid that is not
\* current_docid flushes the pending tally to fid_word_count_docids under the
\* previous current_docid, never under the new docid, before it counts the
\* token; afterwards current_docid is the new docid and the tally holds one
\* entry, (0, 1) for an add or (1, 0) for a del, for the token's field.
C20_FlushOnDocidChange ==
    DocidChanged =>
        /\ sorters.current_docid = <<last.docid>>
        /\ DOMAIN sorters.fid_word_count = {last.field_id}
        /\ sorters.fid_word_count[last.field_id] =
              (IF last.op = "insert_add" THEN <<0, 1>> ELSE <<1, 0>>)
        /\ sorters.fid_word_count_docids =
              last.fid_word_count_docids \cup
              (IF DOMAIN last.fid_word_count = {} THEN {}
               ELSE ExpectedFlush(last.fid_word_count, last.current_docid[1]))
        /\ \A e \in sorters.fid_word_count_docids \ last.fid_word_count_docids :
              e[3] # last.docid

\* an insert for another document found a tally two fields wide, and its flush
\* wrote it under the previous document
C20_Witness ==
    /\ DocidChanged
    /\ Cardinality(DOMAIN last.fid_word_count) = 2
    /\ \E e \in sorters.fid_word_count_docids \ last.fid_word_count_docids :
          e[3] = last.current_docid[1]

(***************************************************************************)
(* Claims on the pass call by call (SpecPass).                             *)
(***************************************************************************)
\* the positions of journal[a] at which add_sorters took the accumulator
TakenAt(a) == { i \in 1..Len(journal[a]) : journal[a][i][3] = "add_sorters" }

\* no insert or flush is made on an accumulator once add_sorters took it, and
\* add_sorters takes one only when every change was extracted without error
TakenAfterExtraction ==
    /\ \A a \in Workers : \A i \in TakenAt(a) : i = Len(journal[a])
    /\ added # {} =>
          /\ \A d \in DocIds : owner[d] # 0
          /\ \A w \in Workers : running[w] = None
          /\ failure.failed = {}

PassEnded == mergers # None \/ failure.result # None

\* C21 as stated: the merger assembler takes an accumulator only after the
\* extraction of all changes by all workers has completed successfully, no
\* insert_add_u32, insert_del_u32 or flush_fid_word_count is made on an
\* accumulator at or after the moment add_sorters takes it, and every
\* accumulator created during the pass is consumed exactly once.
C21_ConsumedOnce ==
    /\ TakenAfterExtraction
    /\ PassEnded =>
          \A a \in Workers : datastore[a] # None => Cardinality(TakenAt(a)) = 1

\* C21: as above, where every accumulator is consumed at most once, and
\* exactly once in a pass that returns its mergers; a pass that returns an
\* error leaves accumulators unconsumed.
C21_ConsumedOnceWhenBuilt ==
    /\ TakenAfterExtraction
    /\ \A a \in Workers : Cardinality(TakenAt(a)) <= 1
    /\ \A a \in Workers : TakenAt(a) # {} => datastore[a] # None
    /\ mergers # None =>
          \A a \in Workers : datastore[a] # None => Cardinality(TakenAt(a)) = 1

\* a pass returned its mergers after two workers made calls on their
\* accumulators and add_sorters took both
C21_Witness ==
    /\ mergers # None
    /\ \A a \in Workers : a <= 2 => Len(journal[a]) >= 2 /\ TakenAt(a) # {}

\* C22: in every state of an accumulator a non-empty tally implies that
\* current_docid is Some, so the current_docid.unwrap() of
\* flush_fid_word_count never panics, also when the flush is called on a
\* fresh accumulator or with nothing counted.
C22_TallyHasDocid ==
    /\ DOMAIN sorters.fid_word_count # {} => sorters.current_docid # None
    /\ ~sorters.panicked

\* a flush found counts to write and unwrapped current_docid to write them
C22_Witness ==
    /\ last.op = "flush"
    /\ DOMAIN last.fid_word_count # {}
    /\ sorters.fid_word_count_docids # last.fid_word_count_docids
    /\ ~sorters.panicked

(***************************************************************************)
(* Claims on the count-0 entries (Spec).                                   *)
(***************************************************************************)
\* the entries of fid_word_count_docids that carry docid d for field fid
FieldEntries(d, fid) ==
    { e \in EntriesOf(AccOf(d).fid_word_count_docids, d) : SubSeq(e[1], 1, 2) = BE(fid) }

\* C23: for a field with n >= 1 tokens in only one version of a document, the
\* flush also writes a count-0 entry on the opposite side: an Insertion, or an
\* Update whose old version has no token in the field, writes the docid to
\* the del side of be(f) 0x00, and a Deletion, or an Update whose new version
\* has no token in the field, to the add side of be(f) 0x00; when n > 30 it
\* is the only entry written for the field.
C23_CountZeroEntry ==
    \A d \in DocIds : Processed(d) =>
        \A f \in FieldIdsOf(batch[d].old) \cup FieldIdsOf(batch[d].new) :
            LET prev == TokenCount(batch[d].old, f)
                next == TokenCount(batch[d].new, f)
            IN  /\ (prev = 0 /\ next >= 1) =>
                      /\ <<BE(f) \o <<0>>, "del", d>> \in FieldEntries(d, f)
                      /\ next > MAX_COUNTED_WORDS =>
                            FieldEntries(d, f) = { <<BE(f) \o <<0>>, "del", d>> }
                /\ (next = 0 /\ prev >= 1) =>
                      /\ <<BE(f) \o <<0>>, "add", d>> \in FieldEntries(d, f)
                      /\ prev > MAX_COUNTED_WORDS =>
                            FieldEntries(d, f) = { <<BE(f) \o <<0>>, "add", d>> }

\* an Insertion with more than 30 tokens in a field and a Deletion were
\* processed, each leaving its count-0 entry
C23_Witness ==
    \E d1 \in DocIds, d2 \in DocIds :
        /\ Processed(d1) /\ Processed(d2)
        /\ batch[d1].kind = "Insertion"
        /\ \E f \in FieldIdsOf(batch[d1].new) :
              /\ TokenCount(batch[d1].new, f) > MAX_COUNTED_WORDS
              /\ FieldEntries(d1, f) = { <<BE(f) \o <<0>>, "del", d1>> }
        /\ batch[d2].kind = "Deletion"
        /\ \E f \in FieldIdsOf(batch[d2].old) :
              <<BE(f) \o <<0>>, "add", d2>> \in FieldEntries(d2, f)

(***************************************************************************)
(* Claims on what a call leaves alone (SpecFrame).                         *)
(***************************************************************************)
\* C24: flush_fid_word_count writes only to fid_word_count_docids and empties
\* the tally, leaving current_docid and the contents of word_docids,
\* exact_word_docids, word_fid_docids and word_position_docids as they were;
\* insert_add_u32 and insert_del_u32 write to fid_word_count_docids only what
\* the flush of a changed docid writes, and nothing when the docid is the
\* current one or there is none.
C24_Frame ==
    /\ last.op = "flush" =>
          /\ sorters.current_docid = last.self.current_docid
          /\ \A stream \in WordStreams : sorters[stream] = last.self[stream]
          /\ sorters.fid_word_count = EmptyTally
          /\ last.self.fid_word_count_docids \subseteq sorters.fid_word_count_docids
    /\ last.op \in {"insert_add", "insert_del"} =>
          sorters.fid_word_count_docids =
              last.self.fid_word_count_docids \cup
              (IF last.self.current_docid = None THEN {}
               ELSE IF last.self.current_docid[1] = last.docid THEN {}
               ELSE ExpectedFlush(last.self.fid_word_count, last.self.current_docid[1]))

\* a flush found tokens in the word streams and counts in the tally, and wrote
\* the counts
C24_Witness ==
    /\ last.op = "flush"
    /\ last.self.word_docids # {}
    /\ last.self.exact_word_docids # {}
    /\ DOMAIN last.self.fid_word_count # {}
    /\ sorters.fid_word_count_docids # last.self.fid_word_count_docids

====
